---------------------------- MODULE Spec2Model ----------------------------
(***************************************************************************)
(* A model of run_asc.py: the warmup/decay learning-rate schedule          *)
(* (warmup_linear), the multi-layer head (GRoIE.forward), the training     *)
(* loop (train), the evaluation routine (test) and the entry point (main). *)
(*                                                                         *)
(* Real numbers are exact fractions <<numerator, denominator>> with a      *)
(* positive denominator.  The encoder and the head's sub-networks are      *)
(* external: their outputs are inputs of the model, drawn from small sets. *)
(***************************************************************************)
EXTENDS Integers, Sequences, FiniteSets, TLC

VARIABLES
    \* ---- warmup_linear applied on its own
    sx, swarmup, sret, spc,
    \* ---- GRoIE.forward
    count, layers, labels, hi, layer_in, losses, logitses,
    total_loss, avg_logits, hpc,
    \* ---- validation-loss computation applied on its own
    v_batch_losses, v_pc,
    \* ---- main / train / test
    args, data, pc, err, t_total, global_step, epoch, step, params, training,
    progress, lr_mult, valid_loss, valid_losses, best_valid_loss,
    dirs, ckpt, preds, valid_json, test_call, io_log

schedVars == <<sx, swarmup, sret, spc>>
headVars  == <<count, layers, labels, hi, layer_in, losses, logitses,
               total_loss, avg_logits, hpc>>
validVars == <<v_batch_losses, v_pc>>
loopVars  == <<t_total, global_step, epoch, step, params, training,
               progress, lr_mult>>
histVars  == <<valid_loss, valid_losses, best_valid_loss>>
fsVars    == <<dirs, ckpt, preds, valid_json>>
runVars   == <<args, data, pc, err, loopVars, histVars, fsVars,
               test_call, io_log>>
vars      == <<schedVars, headVars, validVars, runVars>>

-----------------------------------------------------------------------------
(* Bounds of the model.                                                    *)
Grid         == 10   \* progress and warmup range over multiples of 1/Grid
MaxCount     == 4    \* branch counts 1..MaxCount
MaxLayers    == 5    \* encoder depths 1..MaxLayers
MaxTrain     == 3    \* training examples 0..MaxTrain
MaxBatch     == 3    \* train batch sizes 1..MaxBatch
MaxEpochs    == 2    \* epoch counts 0..MaxEpochs
MaxValid     == 5    \* validation examples 0..MaxValid
MaxSplit     == 3    \* evaluated split sizes 0..MaxSplit
MaxInput     == 2    \* distinct example inputs 1..MaxInput
MaxEvalBatch == 3    \* eval batch sizes 1..MaxEvalBatch

-----------------------------------------------------------------------------
(* Exact fractions.                                                        *)
Frac(n, d)    == <<n, d>>
FracLess(a, b) == a[1] * b[2] < b[1] * a[2]
FracEq(a, b)  == a[1] * b[2] = b[1] * a[2]
\* a / b, for b > 0
FracDiv(a, b) == <<a[1] * b[2], a[2] * b[1]>>
FracSub(a, b) == <<a[1] * b[2] - b[1] * a[2], a[2] * b[2]>>
FracOne       == <<1, 1>>
FracZero      == <<0, 1>>

RECURSIVE SumSeq(_)
SumSeq(s) == IF s = <<>> THEN 0 ELSE s[1] + SumSeq(Tail(s))

Min(a, b) == IF a < b THEN a ELSE b

-----------------------------------------------------------------------------
(* warmup_linear(x, warmup)                                                *)
WarmupBranch(x, warmup) == FracDiv(x, warmup)
DecayBranch(x)          == FracSub(FracOne, x)

warmup_linear_le(x, warmup) ==
    IF FracLess(x, warmup) \/ FracEq(x, warmup)
    THEN WarmupBranch(x, warmup) ELSE DecayBranch(x)

warmup_linear_decay_from_peak(x, warmup) ==
    IF FracLess(x, warmup)
    THEN WarmupBranch(x, warmup)
    ELSE FracSub(FracOne, FracSub(x, warmup))

warmup_linear(x, warmup) ==
    IF FracLess(x, warmup) THEN WarmupBranch(x, warmup) ELSE DecayBranch(x)

-----------------------------------------------------------------------------
(* Python values and indexing.                                             *)
\* an optional value is a sequence: <<>> for None (or for a file that does not
\* exist), <<v>> for the value v
None    == <<>>
NoFile  == <<>>
Some(v) == <<v>>
\* float('inf'), as a fraction
Inf     == <<1, 0>>

\* the 0-based position a Python index k names in a list of length n
PyPos(n, k)     == IF k < 0 THEN k + n ELSE k
PyInRange(n, k) == PyPos(n, k) >= 0 /\ PyPos(n, k) < n
PyGet(s, k)     == s[PyPos(Len(s), k) + 1]

-----------------------------------------------------------------------------
(* GRoIE.forward(layers, attention_mask, labels)                           *)
NumLabels == 3
HeadCount == 4
\* stand-ins for the real-valued outputs of the sub-networks
LogitVecs == {<<0, 1, 2>>, <<3, 1, 0>>}
LossVals  == {2, 5}
\* the encoder's layer stack: the hidden state of depth j is named j
Encoder(depth) == [j \in 1..depth |-> j]
\* torch.Tensor(0): an empty tensor
EmptyTensor == <<>>

SelectIndex_from_front(i) == i
SelectIndex(i) == -i - 1

StackSum(vs) ==
    [c \in 1..NumLabels |-> SumSeq([k \in 1..Len(vs) |-> vs[k][c]])]

TotalLoss(ls) == SumSeq(ls)

AvgLogits(vs, n) == [c \in 1..NumLabels |-> Frac(StackSum(vs)[c], n)]

HeadInit ==
    /\ count \in 1..MaxCount
    /\ layers \in {Encoder(d) : d \in 1..MaxLayers}
    /\ labels \in {None, Some(0), Some(2)}
    /\ hi = 0
    /\ layer_in = <<>>
    /\ losses = <<>>
    /\ logitses = <<>>
    /\ total_loss = None
    /\ avg_logits = None
    /\ hpc = "loop"

HeadIdle ==
    /\ count = 0 /\ layers = <<>> /\ labels = None /\ hi = 0
    /\ layer_in = <<>> /\ losses = <<>> /\ logitses = <<>>
    /\ total_loss = None /\ avg_logits = None /\ hpc = "idle"

\* one iteration of the loop over the branches (lines 63-70)
HeadBranch ==
    /\ hpc = "loop"
    /\ hi < count
    /\ PyInRange(Len(layers), SelectIndex(hi))
    /\ \E logits \in LogitVecs, loss \in LossVals :
          /\ layer_in' = Append(layer_in, PyGet(layers, SelectIndex(hi)))
          /\ losses' = IF labels # None THEN Append(losses, loss) ELSE losses
          /\ logitses' = Append(logitses, logits)
    /\ hi' = hi + 1
    /\ UNCHANGED <<count, layers, labels, total_loss, avg_logits, hpc>>

\* layers[-i-1] with i + 1 > len(layers) raises IndexError
HeadIndexError ==
    /\ hpc = "loop"
    /\ hi < count
    /\ ~PyInRange(Len(layers), SelectIndex(hi))
    /\ hpc' = "IndexError"
    /\ UNCHANGED <<count, layers, labels, hi, layer_in, losses, logitses,
                   total_loss, avg_logits>>

\* lines 71-76
HeadReturn ==
    /\ hpc = "loop"
    /\ hi = count
    /\ total_loss' = IF labels # None THEN Some(TotalLoss(losses))
                                       ELSE Some(EmptyTensor)
    /\ avg_logits' = Some(AvgLogits(logitses, count))
    /\ hpc' = "done"
    /\ UNCHANGED <<count, layers, labels, hi, layer_in, losses, logitses>>

-----------------------------------------------------------------------------
(* Data, batching and the external model.                                  *)
LabelIds == 0..(NumLabels - 1)
Examples == [input : 1..MaxInput, label : LabelIds]

\* number of batches a DataLoader (drop_last = False) yields
NumBatches(n, bs) == (n + bs - 1) \div bs
\* size of its k-th batch, k = 1..NumBatches(n, bs)
BatchSize(n, bs, k) == Min(bs, n - (k - 1) * bs)

\* the logits a model with parameters m returns for one example's inputs
ModelLogits(m, input) == [params |-> m, input |-> input]

-----------------------------------------------------------------------------
(* The validation loss of one epoch (lines 184-192).                       *)
ValidationLoss_unweighted(batch_losses, n, bs) ==
    Frac(SumSeq(batch_losses), Len(batch_losses))

ValidationLoss(batch_losses, n, bs) ==
    LET products ==
            [k \in 1..Len(batch_losses) |->
                batch_losses[k] * BatchSize(n, bs, k)]
        valid_size ==
            SumSeq([k \in 1..Len(batch_losses) |-> BatchSize(n, bs, k)])
    IN  Frac(SumSeq(products), valid_size)

-----------------------------------------------------------------------------
(* The prediction loop of test (lines 238-251).                            *)
RECURSIVE EvalLoop(_, _, _, _, _)
EvalLoop(m, examples, bs, start, acc) ==
    IF start >= Len(examples) THEN acc
    ELSE LET stop  == Min(start + bs, Len(examples))
             batch == SubSeq(examples, start + 1, stop)
             logits ==
                 [k \in 1..Len(batch) |-> ModelLogits(m, batch[k].input)]
             label_ids == [k \in 1..Len(batch) |-> batch[k].label]
         IN  EvalLoop(m, examples, bs, stop,
                      [logits    |-> acc.logits \o logits,
                       label_ids |-> acc.label_ids \o label_ids])

\* a loop that drops a final partial batch
RECURSIVE EvalLoopDropLast(_, _, _, _, _)
EvalLoopDropLast(m, examples, bs, start, acc) ==
    IF start + bs > Len(examples) THEN acc
    ELSE LET batch == SubSeq(examples, start + 1, start + bs)
             logits ==
                 [k \in 1..Len(batch) |-> ModelLogits(m, batch[k].input)]
             label_ids == [k \in 1..Len(batch) |-> batch[k].label]
         IN  EvalLoopDropLast(m, examples, bs, start + bs,
                      [logits    |-> acc.logits \o logits,
                       label_ids |-> acc.label_ids \o label_ids])

Predictions_drop_last(m, examples, bs) ==
    EvalLoopDropLast(m, examples, bs, 0, [logits |-> <<>>, label_ids |-> <<>>])

Predictions(m, examples, bs) ==
    EvalLoop(m, examples, bs, 0, [logits |-> <<>>, label_ids |-> <<>>])

-----------------------------------------------------------------------------
(* The file system under args.output_dir: the top-level directory and the  *)
(* epoch-scoped directories str(epoch + 1).                                *)
OutputDir   == 0
EpochDir(e) == e + 1
DirIds      == 0..(MaxEpochs + 1)

IsLastEpoch_never(e, n) == e = n
IsLastEpoch(e, n) == e = n - 1

SaveModel(files, d, m) == [files EXCEPT ![d] = Some(m)]

RemoveModel_keep(files, d) == files
RemoveModel(files, d) == [files EXCEPT ![d] = NoFile]

Log(op, d, what) == [op |-> op, dir |-> d, what |-> what]

Crash(e) ==
    /\ pc' = "crashed"
    /\ err' = e

-----------------------------------------------------------------------------
(* test(args, new_dirs, dev_as_test), lines 211-255.                       *)
TestCall(new_dirs, dev_as_test, next) ==
    LET split    == IF dev_as_test THEN "dev_as_test" ELSE "test"
        examples == IF dev_as_test THEN data.dev_as_test ELSE data.test
    IN  /\ io_log' = Append(io_log, Log("test", new_dirs, split))
        /\ IF new_dirs = None
           THEN \* os.path.join(None, "model.pt")
                /\ Crash("TypeError")
                /\ test_call' = Some([new_dirs |-> new_dirs, split |-> split,
                                      loaded |-> NoFile, live |-> params])
                /\ UNCHANGED preds
           ELSE IF ckpt[new_dirs[1]] = NoFile
           THEN \* torch.load of a file that does not exist
                /\ Crash("FileNotFoundError")
                /\ test_call' = Some([new_dirs |-> new_dirs, split |-> split,
                                      loaded |-> NoFile, live |-> params])
                /\ UNCHANGED preds
           ELSE /\ pc' = next
                /\ err' = err
                /\ test_call' = Some([new_dirs |-> new_dirs, split |-> split,
                                      loaded |-> ckpt[new_dirs[1]],
                                      live |-> params])
                /\ preds' = [preds EXCEPT ![new_dirs[1]] =
                                Some(Predictions(ckpt[new_dirs[1]][1], examples,
                                                 args.eval_batch_size))]
        /\ UNCHANGED <<args, data, loopVars, histVars, dirs, ckpt, valid_json>>

-----------------------------------------------------------------------------
(* main, lines 325-335.                                                    *)
Main ==
    /\ pc = "main"
    /\ dirs' = dirs \cup {OutputDir}
    /\ pc' = IF args.do_train THEN "train"
             ELSE IF args.do_eval THEN "main_eval" ELSE "exit"
    /\ UNCHANGED <<args, data, err, loopVars, histVars, ckpt, preds,
                   valid_json, test_call, io_log>>

\* line 335: test(args)
MainEval ==
    /\ pc = "main_eval"
    /\ TestCall(None, FALSE, "exit")

-----------------------------------------------------------------------------
(* train, lines 97-208.                                                    *)
\* where the outer loop goes once epoch e is finished
NextEpoch(e) ==
    IF e + 1 < args.num_train_epochs
    THEN /\ pc' = "batch" /\ epoch' = e + 1 /\ step' = 0
    ELSE /\ pc' = "after_loop" /\ epoch' = e /\ step' = step

\* lines 99-164
TrainSetup ==
    /\ pc = "train"
    /\ t_total' = (data.train \div args.train_batch_size)
                      * args.num_train_epochs
    /\ global_step' = 0
    /\ training' = TRUE
    /\ valid_losses' = <<>>
    /\ best_valid_loss' = Inf
    /\ IF args.num_train_epochs > 0
       THEN pc' = "batch"
       ELSE pc' = "after_loop"
    /\ UNCHANGED <<args, data, err, epoch, step, params, progress, lr_mult,
                   valid_loss, fsVars, test_call, io_log>>

\* one batch of the inner loop, lines 165-176
TrainStep ==
    /\ pc = "batch"
    /\ step < NumBatches(data.train, args.train_batch_size)
    /\ IF t_total = 0
       THEN \* global_step/t_total
            /\ Crash("ZeroDivisionError")
            /\ UNCHANGED <<global_step, step, params, progress, lr_mult>>
       ELSE /\ progress' = Some(Frac(global_step, t_total))
            /\ lr_mult' = Some(warmup_linear(Frac(global_step, t_total),
                                             args.warmup_proportion))
            /\ params' = params + 1
            /\ global_step' = global_step + 1
            /\ step' = step + 1
            /\ UNCHANGED <<pc, err>>
    /\ UNCHANGED <<args, data, t_total, epoch, training, histVars, fsVars,
                   test_call, io_log>>

\* lines 177-181; `loss` is bound by the first training batch, so with no
\* batch at all loss.item() at line 177 raises before os.mkdir
EpochMkdir ==
    /\ pc = "batch"
    /\ step = NumBatches(data.train, args.train_batch_size)
    /\ IF NumBatches(data.train, args.train_batch_size) = 0
       THEN /\ Crash("UnboundLocalError")
            /\ UNCHANGED <<dirs, epoch, step>>
       ELSE IF EpochDir(epoch) \in dirs
       THEN /\ Crash("FileExistsError")
            /\ UNCHANGED <<dirs, epoch, step>>
       ELSE /\ dirs' = dirs \cup {EpochDir(epoch)}
            /\ err' = err
            /\ IF args.do_valid
               THEN /\ pc' = "validate"
                    /\ UNCHANGED <<epoch, step>>
               ELSE NextEpoch(epoch)
    /\ UNCHANGED <<args, data, t_total, global_step, params, training,
                   progress, lr_mult, histVars, ckpt, preds, valid_json,
                   test_call, io_log>>

\* lines 182-194
Validate ==
    /\ pc = "validate"
    /\ training' = FALSE
    /\ IF data.dev = 0
       THEN \* sum(losses)/valid_size
            /\ Crash("ZeroDivisionError")
            /\ UNCHANGED <<valid_loss, valid_losses>>
       ELSE /\ \E batch_losses \in
                   [1..NumBatches(data.dev, args.train_batch_size) -> LossVals] :
                   /\ valid_loss' = Some(ValidationLoss(batch_losses, data.dev,
                                                  args.train_batch_size))
                   /\ valid_losses' = Append(valid_losses,
                         ValidationLoss(batch_losses, data.dev,
                                        args.train_batch_size))
            /\ pc' = "save_epoch"
            /\ err' = err
    /\ UNCHANGED <<args, data, t_total, global_step, epoch, step, params,
                   progress, lr_mult, best_valid_loss, fsVars, test_call,
                   io_log>>

\* line 195
SaveEpoch ==
    /\ pc = "save_epoch"
    /\ ckpt' = SaveModel(ckpt, EpochDir(epoch), params)
    /\ io_log' = Append(io_log, Log("save", Some(EpochDir(epoch)), "epoch"))
    /\ pc' = "test_dev"
    /\ UNCHANGED <<args, data, err, loopVars, histVars, dirs, preds,
                   valid_json, test_call>>

\* line 196
TestDev ==
    /\ pc = "test_dev"
    /\ TestCall(Some(EpochDir(epoch)), TRUE,
                IF IsLastEpoch(epoch, args.num_train_epochs)
                THEN "save_final" ELSE "remove")

\* line 198
SaveFinal ==
    /\ pc = "save_final"
    /\ ckpt' = SaveModel(ckpt, OutputDir, params)
    /\ io_log' = Append(io_log, Log("save", Some(OutputDir), "last_epoch"))
    /\ pc' = "test_final"
    /\ UNCHANGED <<args, data, err, loopVars, histVars, dirs, preds,
                   valid_json, test_call>>

\* line 199
TestFinal ==
    /\ pc = "test_final"
    /\ TestCall(Some(OutputDir), FALSE, "remove")

\* line 200
RemoveEpoch ==
    /\ pc = "remove"
    /\ ckpt' = RemoveModel(ckpt, EpochDir(epoch))
    /\ io_log' = Append(io_log, Log("remove", Some(EpochDir(epoch)), "epoch"))
    /\ pc' = "epoch_finish"
    /\ UNCHANGED <<args, data, err, loopVars, histVars, dirs, preds,
                   valid_json, test_call>>

\* lines 201-203
EpochFinish ==
    /\ pc = "epoch_finish"
    /\ best_valid_loss' = IF FracLess(valid_loss[1], best_valid_loss)
                          THEN valid_loss[1] ELSE best_valid_loss
    /\ training' = TRUE
    /\ NextEpoch(epoch)
    /\ UNCHANGED <<args, data, err, t_total, global_step, params, progress,
                   lr_mult, valid_loss, valid_losses, fsVars, test_call,
                   io_log>>

\* a loop exit that saves the checkpoint whether or not validation ran
AfterLoop_save_always ==
    /\ pc = "after_loop"
    /\ IF args.do_valid
       THEN /\ valid_json' = Some(valid_losses)
            /\ ckpt' = SaveModel(ckpt, OutputDir, params)
            /\ io_log' = Append(Append(io_log,
                                Log("write", Some(OutputDir), "valid")),
                                Log("save", Some(OutputDir), "post_loop"))
       ELSE /\ ckpt' = SaveModel(ckpt, OutputDir, params)
            /\ io_log' = Append(io_log,
                                Log("save", Some(OutputDir), "post_loop"))
            /\ UNCHANGED valid_json
    /\ pc' = "trained"
    /\ UNCHANGED <<args, data, err, loopVars, histVars, dirs, preds,
                   test_call>>

\* lines 204-208
AfterLoop ==
    /\ pc = "after_loop"
    /\ IF args.do_valid
       THEN /\ valid_json' = Some(valid_losses)
            /\ io_log' = Append(io_log, Log("write", Some(OutputDir), "valid"))
            /\ UNCHANGED ckpt
       ELSE /\ ckpt' = SaveModel(ckpt, OutputDir, params)
            /\ io_log' = Append(io_log,
                                Log("save", Some(OutputDir), "post_loop"))
            /\ UNCHANGED valid_json
    /\ pc' = "trained"
    /\ UNCHANGED <<args, data, err, loopVars, histVars, dirs, preds,
                   test_call>>

\* line 334
TrainReturn ==
    /\ pc = "trained"
    /\ pc' = IF args.do_eval THEN "main_eval" ELSE "exit"
    /\ UNCHANGED <<args, data, err, loopVars, histVars, fsVars, test_call,
                   io_log>>

-----------------------------------------------------------------------------
(* Initial states.                                                         *)
NoError == ""

SeqsUpTo(S, n) == UNION {[1..k -> S] : k \in 0..n}

\* the splits a whole run evaluates
TestSplit ==
    <<[input |-> 1, label |-> 0], [input |-> 2, label |-> 2],
      [input |-> 1, label |-> 1]>>
DevAsTestSplit ==
    <<[input |-> 2, label |-> 1], [input |-> 1, label |-> 2]>>
\* warmup_proportion: the default, and a half
WarmupChoices == {Frac(1, 10), Frac(1, 2)}

SchedIdle == sx = FracZero /\ swarmup = FracZero /\ sret = None /\ spc = "idle"

ValidIdle == v_batch_losses = <<>> /\ v_pc = "idle"

\* the state main starts in, given the arguments and the data directory
RunFresh(a, d, at) ==
    /\ args = a
    /\ data = d
    /\ pc = at
    /\ err = NoError
    /\ t_total = 0 /\ global_step = 0 /\ epoch = 0 /\ step = 0
    /\ params = 0 /\ training = FALSE
    /\ progress = None /\ lr_mult = None
    /\ valid_loss = None /\ valid_losses = <<>> /\ best_valid_loss = Inf
    /\ dirs = {}
    /\ ckpt = [d1 \in DirIds |-> NoFile]
    /\ preds = [d1 \in DirIds |-> NoFile]
    /\ valid_json = NoFile
    /\ test_call = None
    /\ io_log = <<>>

Args(do_train, do_valid, do_eval, bs, ebs, n, w) ==
    [do_train |-> do_train, do_valid |-> do_valid, do_eval |-> do_eval,
     train_batch_size |-> bs, eval_batch_size |-> ebs,
     num_train_epochs |-> n, warmup_proportion |-> w]

Data(train, dev, test, dev_as_test) ==
    [train |-> train, dev |-> dev, test |-> test, dev_as_test |-> dev_as_test]

\* a whole run of main; the dev split is read only when do_train and do_valid
Init ==
    /\ SchedIdle /\ HeadIdle /\ ValidIdle
    /\ \E do_train \in BOOLEAN, do_valid \in BOOLEAN, do_eval \in BOOLEAN,
          bs \in 1..MaxBatch, n \in 0..MaxEpochs, w \in WarmupChoices,
          train \in 0..MaxTrain, dev \in 0..MaxValid :
          /\ (do_train /\ do_valid) \/ dev = 0
          /\ do_train \/ (train = 0 /\ bs = 1 /\ n = 0 /\ w = Frac(1, 10))
          /\ RunFresh(Args(do_train, do_valid, do_eval, bs, 2, n, w),
                      Data(train, dev, TestSplit, DevAsTestSplit), "main")

subVars == <<schedVars, headVars, validVars>>

Next ==
    \/ Main /\ UNCHANGED subVars
    \/ TrainSetup /\ UNCHANGED subVars
    \/ TrainStep /\ UNCHANGED subVars
    \/ EpochMkdir /\ UNCHANGED subVars
    \/ Validate /\ UNCHANGED subVars
    \/ SaveEpoch /\ UNCHANGED subVars
    \/ TestDev /\ UNCHANGED subVars
    \/ SaveFinal /\ UNCHANGED subVars
    \/ TestFinal /\ UNCHANGED subVars
    \/ RemoveEpoch /\ UNCHANGED subVars
    \/ EpochFinish /\ UNCHANGED subVars
    \/ AfterLoop /\ UNCHANGED subVars
    \/ TrainReturn /\ UNCHANGED subVars
    \/ MainEval /\ UNCHANGED subVars

Spec == Init /\ [][Next]_vars

-----------------------------------------------------------------------------
(* warmup_linear on every progress and warmup of the grid.                 *)
SchedInit ==
    /\ sx \in {Frac(p, Grid) : p \in 0..Grid}
    /\ swarmup \in {Frac(q, Grid) : q \in 0..Grid}
    /\ sret = None
    /\ spc = "call"

SchedApply ==
    /\ spc = "call"
    /\ sret' = Some(warmup_linear(sx, swarmup))
    /\ spc' = "done"
    /\ UNCHANGED <<sx, swarmup, headVars, validVars, runVars>>

RunIdle ==
    RunFresh(Args(FALSE, FALSE, FALSE, 1, 1, 0, Frac(1, 10)),
             Data(0, 0, <<>>, <<>>), "idle")

InitSched == SchedInit /\ HeadIdle /\ ValidIdle /\ RunIdle

NextSched == SchedApply

SpecSched == InitSched /\ [][NextSched]_vars

-----------------------------------------------------------------------------
(* GRoIE.forward on every branch count and encoder depth.                  *)
InitHead == SchedIdle /\ HeadInit /\ ValidIdle /\ RunIdle

NextHead ==
    \/ HeadBranch /\ UNCHANGED <<schedVars, validVars, runVars>>
    \/ HeadIndexError /\ UNCHANGED <<schedVars, validVars, runVars>>
    \/ HeadReturn /\ UNCHANGED <<schedVars, validVars, runVars>>

SpecHead == InitHead /\ [][NextHead]_vars

-----------------------------------------------------------------------------
(* The validation loss on every validation set size, batch size and        *)
(* per-batch loss.                                                         *)
ValidInit ==
    /\ v_pc = "call"
    /\ \E bs \in 1..MaxBatch, dev \in 0..MaxValid :
          /\ v_batch_losses \in [1..NumBatches(dev, bs) -> LossVals]
          /\ RunFresh(Args(TRUE, TRUE, FALSE, bs, 1, 1, Frac(1, 10)),
                      Data(0, dev, <<>>, <<>>), "idle")

ValidApply ==
    /\ v_pc = "call"
    /\ IF data.dev = 0
       THEN /\ v_pc' = "ZeroDivisionError"
            /\ UNCHANGED valid_loss
       ELSE /\ v_pc' = "done"
            /\ valid_loss' = Some(ValidationLoss(v_batch_losses, data.dev,
                                                 args.train_batch_size))
    /\ UNCHANGED <<v_batch_losses, schedVars, headVars, args, data, pc, err,
                   loopVars, valid_losses, best_valid_loss, fsVars,
                   test_call, io_log>>

InitValid == SchedIdle /\ HeadIdle /\ ValidInit

NextValid == ValidApply

SpecValid == InitValid /\ [][NextValid]_vars

-----------------------------------------------------------------------------
(* test on every split, eval batch size and persisted checkpoint.          *)
EvalInit ==
    /\ pc = "eval"
    /\ err = NoError
    /\ \E ebs \in 1..MaxEvalBatch, test \in SeqsUpTo(Examples, MaxSplit) :
          /\ args = Args(FALSE, FALSE, TRUE, 1, ebs, 0, Frac(1, 10))
          /\ data = Data(0, 0, test, <<>>)
    /\ t_total = 0 /\ global_step = 0 /\ epoch = 0 /\ step = 0
    /\ params \in 0..1 /\ training = FALSE
    /\ progress = None /\ lr_mult = None
    /\ valid_loss = None /\ valid_losses = <<>> /\ best_valid_loss = Inf
    /\ dirs = {OutputDir}
    /\ \E m \in 0..1 : ckpt = [d1 \in DirIds |->
                                 IF d1 = OutputDir THEN Some(m) ELSE NoFile]
    /\ preds = [d1 \in DirIds |-> NoFile]
    /\ valid_json = NoFile
    /\ test_call = None
    /\ io_log = <<>>

EvalApply ==
    /\ pc = "eval"
    /\ TestCall(Some(OutputDir), FALSE, "exit")

InitEval == SchedIdle /\ HeadIdle /\ ValidIdle /\ EvalInit

NextEval == EvalApply /\ UNCHANGED subVars

SpecEval == InitEval /\ [][NextEval]_vars

-----------------------------------------------------------------------------
(* Properties of the schedule function, under SpecSched.                   *)

\* C1: for every warmup in (0, 1] and progress in [0, 1] of the grid,
\* warmup_linear returns progress / warmup when progress < warmup and
\* 1 - progress otherwise; it is 0 at progress 0 and at progress 1.
C1_ScheduleBranches ==
    (spc = "done" /\ swarmup[1] > 0) =>
        LET p == sx[1]
            q == swarmup[1]
            r == sret[1]
        IN  /\ r[2] > 0
            /\ p < q  => r[1] * q = p * r[2]
            /\ p >= q => r[1] * Grid = (Grid - p) * r[2]
            /\ p = 0 => r[1] = 0
            /\ p = Grid => r[1] = 0

C1_Witness ==
    /\ spc = "done"
    /\ sx[1] = 1 /\ swarmup[1] = 2
    /\ FracEq(sret[1], Frac(1, 2))

\* C2 as stated: at progress = warmup, for warmup in (0, 1), the two branches
\* agree and the multiplier is 1.
C2_ContinuousAtWarmup ==
    (spc = "done" /\ swarmup[1] > 0 /\ swarmup[1] < Grid /\ sx = swarmup) =>
        /\ FracEq(WarmupBranch(sx, swarmup), DecayBranch(sx))
        /\ FracEq(sret[1], FracOne)

\* C2, amended: at progress = warmup, for warmup in (0, 1), the warmup
\* branch's limit is 1 but the multiplier is the decay branch's value,
\* 1 - warmup, which is below 1: the schedule jumps down by warmup.
C2_JumpAtWarmup ==
    (spc = "done" /\ swarmup[1] > 0 /\ swarmup[1] < Grid /\ sx = swarmup) =>
        /\ FracEq(WarmupBranch(sx, swarmup), FracOne)
        /\ sret[1][1] * Grid = (Grid - swarmup[1]) * sret[1][2]
        /\ FracLess(sret[1], FracOne)

C2_Witness ==
    /\ spc = "done"
    /\ sx = swarmup
    /\ swarmup[1] > 0 /\ swarmup[1] < Grid
    /\ FracLess(sret[1], FracOne)

-----------------------------------------------------------------------------
(* Properties of GRoIE.forward, under SpecHead.                            *)

\* C3: branch i reads the hidden state at position -(i+1) from the end of
\* the layer stack, every position read lies within the stack, the loss
\* returned with labels is the sum of the per-branch losses, and the logits
\* returned are the mean of the per-branch logits, with or without labels.
C3_Combine ==
    /\ \A k \in 1..Len(layer_in) :
          /\ Len(layers) - (k - 1) \in 1..Len(layers)
          /\ layer_in[k] = layers[Len(layers) - (k - 1)]
    /\ hpc = "done" =>
          /\ Len(layer_in) = count
          /\ Len(logitses) = count
          /\ labels # None =>
                /\ Len(losses) = count
                /\ total_loss[1] = SumSeq(losses)
          /\ \A c \in 1..NumLabels :
                avg_logits[1][c][1] * count =
                    SumSeq([k \in 1..count |-> logitses[k][c]])
                        * avg_logits[1][c][2]

C3_Witness ==
    /\ hpc = "done"
    /\ count = HeadCount
    /\ Len(layers) = HeadCount + 1
    /\ labels # None
    /\ layer_in = <<5, 4, 3, 2>>
    /\ losses = <<2, 5, 5, 5>>
    /\ total_loss = Some(17)
    /\ logitses = <<(<<0, 1, 2>>), (<<3, 1, 0>>), (<<3, 1, 0>>), (<<3, 1, 0>>)>>

-----------------------------------------------------------------------------
(* Properties of test, under SpecEval.                                     *)

\* C4: for every split and eval batch size, the persisted logits and
\* label_ids have the split's length, and their i-th entries are those of
\* the split's i-th example.
C4_OrderPreserved ==
    pc = "exit" =>
        LET out   == preds[OutputDir][1]
            split == data.test
        IN  /\ Len(out.logits) = Len(split)
            /\ Len(out.label_ids) = Len(split)
            /\ \A i \in 1..Len(split) :
                  /\ out.logits[i] = ModelLogits(ckpt[OutputDir][1],
                                                 split[i].input)
                  /\ out.label_ids[i] = split[i].label

C4_Witness ==
    /\ pc = "exit"
    /\ args.eval_batch_size = 2
    /\ Len(data.test) = 3
    /\ data.test[1].input # data.test[3].input
    /\ data.test[1].label # data.test[3].label
    /\ Len(preds[OutputDir][1].logits) = 3

-----------------------------------------------------------------------------
(* Properties of a whole run, under Spec.                                  *)
CountLog(op, what) ==
    Cardinality({k \in 1..Len(io_log) :
                    io_log[k].op = op /\ io_log[k].what = what})

IsPrefix(s, t) == Len(s) <= Len(t) /\ SubSeq(t, 1, Len(s)) = s

\* train has returned to main (the only TypeError is that of main's test call)
TrainingEnded ==
    /\ args.do_train
    /\ \/ pc \in {"trained", "main_eval", "exit"}
       \/ pc = "crashed" /\ err = "TypeError"

\* C5: every invocation of test is given a location that holds a persisted
\* checkpoint, and loads it.
C5_EveryEvalLoadsCheckpoint ==
    test_call # None =>
        /\ test_call[1].new_dirs # None
        /\ test_call[1].loaded # NoFile
        /\ err = NoError

\* C6 as stated: when training with at least one epoch ends, with or without
\* validation, the top-level directory holds a checkpoint and a prediction
\* file.
C6_FinalEvalAlways ==
    (pc = "trained" /\ args.num_train_epochs >= 1) =>
        /\ ckpt[OutputDir] # NoFile
        /\ preds[OutputDir] # NoFile

\* C6, amended: when training with at least one epoch ends, the top-level
\* directory holds a checkpoint of the final parameters; a validation-
\* enabled run saved it at the last epoch and then evaluated it on the test
\* split, so the top-level prediction file exists and is that of the test
\* split; a validation-disabled run saved it after the loop and evaluated
\* nothing, so there is no prediction file.
C6_FinalEvalWhenValidating ==
    /\ pc \in {"save_final", "test_final"} =>
          args.do_valid /\ epoch = args.num_train_epochs - 1
    /\ (pc = "trained" /\ args.num_train_epochs >= 1) =>
          /\ ckpt[OutputDir] = Some(params)
          /\ args.do_valid =>
                /\ CountLog("save", "last_epoch") = 1
                /\ preds[OutputDir] # NoFile
                /\ preds[OutputDir][1].label_ids =
                       [i \in 1..Len(data.test) |-> data.test[i].label]
                /\ \A i \in 1..Len(data.test) :
                       preds[OutputDir][1].logits[i].params = params
          /\ ~args.do_valid =>
                /\ preds[OutputDir] = NoFile
                /\ CountLog("test", "test") = 0
                /\ CountLog("test", "dev_as_test") = 0

C6_Witness ==
    /\ pc = "trained"
    /\ args.do_valid
    /\ args.num_train_epochs = 2
    /\ data.train = 3 /\ args.train_batch_size = 2
    /\ ckpt[OutputDir] = Some(4)
    /\ preds[OutputDir] # NoFile

\* C7 (state part): after all epochs exactly one terminal persistence action runs: a
\* validation-enabled run writes the validation history once, one loss per
\* epoch in epoch order, and saves no checkpoint after the loop; a
\* validation-disabled run saves one checkpoint after the loop and writes no
\* history.  The history is only ever appended to, once per epoch.
C7_TerminalState ==
    /\ ~TrainingEnded =>
          /\ valid_json = NoFile
          /\ CountLog("write", "valid") = 0
          /\ CountLog("save", "post_loop") = 0
    /\ TrainingEnded =>
          IF args.do_valid
          THEN /\ valid_json = Some(valid_losses)
               /\ Len(valid_losses) = args.num_train_epochs
               /\ CountLog("write", "valid") = 1
               /\ CountLog("save", "post_loop") = 0
          ELSE /\ valid_json = NoFile
               /\ valid_losses = <<>>
               /\ CountLog("write", "valid") = 0
               /\ CountLog("save", "post_loop") = 1
               /\ ckpt[OutputDir] = Some(params)

C7_HistoryStep ==
    /\ IsPrefix(valid_losses, valid_losses')
    /\ Len(valid_losses') <= Len(valid_losses) + 1
    /\ Len(valid_losses') = Len(valid_losses) + 1 =>
          /\ pc = "validate"
          /\ Len(valid_losses) = epoch
          /\ valid_losses'[epoch + 1] = valid_loss'[1]
    /\ valid_json # NoFile => valid_json' = valid_json

\* C7: the terminal state above holds throughout, and every step leaves the
\* validation history a prefix of its next value, growing by at most the
\* current epoch's loss, and never rewrites the history file.
C7_TerminalPersistence == []C7_TerminalState /\ [][C7_HistoryStep]_vars

C7_Witness ==
    /\ pc = "trained"
    /\ args.do_valid
    /\ args.num_train_epochs = 2
    /\ Len(valid_losses) = 2
    /\ ~FracEq(valid_losses[1], valid_losses[2])
    /\ valid_json = Some(valid_losses)
    /\ ckpt[OutputDir] # NoFile

\* C8: at every optimizer step, total_steps is nonzero, the steps taken never
\* exceed total_steps, the progress passed to the schedule lies in [0, 1],
\* and the multiplier applied is not negative.
C8_ProgressInUnitInterval ==
    /\ (pc = "batch"
          /\ step < NumBatches(data.train, args.train_batch_size))
          => t_total # 0
    /\ global_step <= t_total
    /\ progress # None =>
          /\ ~FracLess(progress[1], FracZero)
          /\ ~FracLess(FracOne, progress[1])
    /\ lr_mult # None => ~FracLess(lr_mult[1], FracZero)

\* C9: in a validation-enabled run the epoch's checkpoint is persisted before
\* test is invoked on the dev-as-test split and deleted after it returns; at
\* the start of every epoch and once training has ended no epoch directory
\* holds a checkpoint, every completed epoch's directory holds the
\* dev-as-test predictions, and after the last epoch only the top-level
\* checkpoint remains.
C9_ScopedCheckpoint ==
    args.do_valid =>
        /\ pc = "test_dev" => ckpt[EpochDir(epoch)] = Some(params)
        /\ pc \in {"save_final", "test_final", "remove"} =>
              /\ ckpt[EpochDir(epoch)] = Some(params)
              /\ preds[EpochDir(epoch)] # NoFile
        /\ \A k \in 1..Len(io_log) :
              (io_log[k].op = "test" /\ io_log[k].what = "dev_as_test") =>
                  /\ k > 1
                  /\ io_log[k - 1] = Log("save", io_log[k].dir, "epoch")
        /\ \A k \in 1..Len(io_log) :
              io_log[k].op = "remove" =>
                  \E j \in 1..(k - 1) :
                      /\ io_log[j] = Log("test", io_log[k].dir, "dev_as_test")
                      /\ \A i \in (j + 1)..(k - 1) :
                            io_log[i].dir = Some(OutputDir)
        /\ (pc \in {"batch", "validate", "after_loop"} \/ TrainingEnded) =>
              /\ \A d \in DirIds \ {OutputDir} : ckpt[d] = NoFile
              /\ \A e \in 0..(args.num_train_epochs - 1) :
                    (e < epoch \/ pc = "after_loop" \/ TrainingEnded) =>
                        /\ preds[EpochDir(e)] # NoFile
                        /\ preds[EpochDir(e)][1].label_ids =
                               [i \in 1..Len(data.dev_as_test) |->
                                   data.dev_as_test[i].label]
        /\ (TrainingEnded /\ args.num_train_epochs >= 1) =>
              ckpt[OutputDir] # NoFile

C9_Witness ==
    /\ pc = "trained"
    /\ args.do_valid
    /\ args.num_train_epochs = 2
    /\ preds[EpochDir(0)] # NoFile
    /\ preds[EpochDir(1)] # NoFile
    /\ ckpt[EpochDir(0)] = NoFile
    /\ ckpt[EpochDir(1)] = NoFile
    /\ ckpt[OutputDir] # NoFile
    /\ CountLog("remove", "epoch") = 2

-----------------------------------------------------------------------------
(* Properties of the validation loss, under SpecValid.                     *)

\* C10: the validation loss is the per-example average of the batch losses:
\* the sum over the batches of (batch loss x batch size) over the number of
\* validation examples; batches of sizes 3 and 1 with losses 2 and 5 give
\* 11/4, not 7/2.
C10_SizeWeighted ==
    v_pc = "done" =>
        LET bs == args.train_batch_size
            perExample ==
                [j \in 1..data.dev |-> v_batch_losses[((j - 1) \div bs) + 1]]
        IN  /\ valid_loss[1][2] > 0
            /\ valid_loss[1][1] * data.dev = SumSeq(perExample) * valid_loss[1][2]
            /\ (bs = 3 /\ data.dev = 4 /\ v_batch_losses = <<2, 5>>) =>
                  /\ FracEq(valid_loss[1], Frac(11, 4))
                  /\ ~FracEq(valid_loss[1], Frac(7, 2))

C10_Witness ==
    /\ v_pc = "done"
    /\ args.train_batch_size = 3
    /\ data.dev = 4
    /\ v_batch_losses = <<2, 5>>
    /\ FracEq(valid_loss[1], Frac(11, 4))

=============================================================================
